---- MODULE Spec2Model ----
(***************************************************************************)
(* Placement tool, object registry and persistence echo of block-builder.  *)
(*                                                                         *)
(* Lengths are integers in twentieths of a metre, so that the catalog's    *)
(* sizes (0.3, 0.5) and the half heights derived from them are exact.      *)
(* A JavaScript object used as a map ({} keyed by id) is a sequence of     *)
(* [k, v] entries in OwnPropertyKeys order.  A THREE.Mesh / CANNON.Body is *)
(* a record carrying a handle h, its identity.                             *)
(***************************************************************************)
EXTENDS Integers, Sequences, FiniteSets, TLC

\* ---------------------------------------------------------------- bounds
MaxList == 2      \* longest project list a load callback delivers
MaxScene == 2     \* most placed-object meshes kept in the scene graph
MaxTurns == 1     \* most rotateGhost quarter turns
MaxYaw == 1       \* largest camera yaw, in quarter turns
BoxCount == 1     \* pushable boxes modelled of those the program creates
MaxDrops == 1     \* most pentomino pieces dropped on top of the boxes
MaxPush == 1      \* most 1 m displacements physics gives a body along x
MaxAccumulator == 64  \* most unsimulated time the world carries over
MaxDirection == 4    \* largest step of an index change, either way
MaxPalette == 5      \* longest palette an index cycles over

\* -------------------------------------------------------------- catalog
\* sizes [w, h, d] in twentieths of a metre
ASSETS ==
    [FLOOR |-> [id |-> "floor", size |-> <<4000, 4000>>],
     WALL  |-> [id |-> "wall",  size |-> <<300, 120, 6>>],
     SOFA  |-> [id |-> "sofa",  size |-> <<60, 20, 20>>],
     TABLE |-> [id |-> "table", size |-> <<20, 10, 20>>]]

DECORATION_ASSET_KEYS == <<"SOFA", "TABLE", "WALL">>

\* A palette that names a key the catalog does not define.
DecorationKeysWithMissing == <<"SOFA", "CHAIR", "WALL">>

\* ------------------------------------------------------- JS value model
Num(n) == [t |-> "num", v |-> n]
Str == [t |-> "str", v |-> 0]
Undefined == [t |-> "undef", v |-> 0]

Arr(xs) == [isArray |-> TRUE, xs |-> xs]
NotArr == [isArray |-> FALSE, xs |-> <<>>]

Vec(x, y, z) == <<Num(x), Num(y), Num(z)>>

\* a % b of JavaScript: the result has the sign of the dividend
JSRem(a, b) == IF a >= 0 THEN a % b ELSE 0 - ((0 - a) % b)

\* Math.round(x / g) * g for x given in tenths: round half up
SnapToGrid(x10, g) == ((x10 + 5 * g) \div (10 * g)) * g

\* ---- plain objects as ordered maps (OwnPropertyKeys order)
IndexKeys == <<"0", "1", "2", "3", "4", "5", "6", "7", "8", "9">>

IsArrayIndex(k) == \E i \in 1..Len(IndexKeys) : IndexKeys[i] = k

IndexVal(k) == CHOOSE i \in 1..Len(IndexKeys) : IndexKeys[i] = k

ObjKeys(o) == [i \in 1..Len(o) |-> o[i].k]

ObjValues(o) == [i \in 1..Len(o) |-> o[i].v]

KeySet(o) == {o[i].k : i \in 1..Len(o)}

ObjHas(o, k) == \E i \in 1..Len(o) : o[i].k = k

ObjGet(o, k) == o[CHOOSE i \in 1..Len(o) : o[i].k = k].v

ObjDelete(o, k) == SelectSeq(o, LAMBDA e : e.k # k)

\* integer-like keys come first in ascending order, then the other keys in
\* insertion order; assigning an existing key keeps its place
ObjSet(o, k, v) ==
    IF ObjHas(o, k)
        THEN [i \in 1..Len(o) |-> IF o[i].k = k THEN [k |-> k, v |-> v] ELSE o[i]]
    ELSE IF IsArrayIndex(k)
        THEN LET before == SelectSeq(o, LAMBDA e :
                               IsArrayIndex(e.k) /\ IndexVal(e.k) < IndexVal(k))
                 after == SelectSeq(o, LAMBDA e :
                               ~(IsArrayIndex(e.k) /\ IndexVal(e.k) < IndexVal(k)))
             IN before \o <<[k |-> k, v |-> v]>> \o after
    ELSE Append(o, [k |-> k, v |-> v])

\* ------------------------------------------------ persisted project data
\* one entry of a project list; null marks a null/falsy entry and hasId an
\* entry that carries an id property
Item(id, assetId, position, rotation) ==
    [null |-> FALSE, hasId |-> TRUE, id |-> id, assetId |-> assetId,
     position |-> position, rotation |-> rotation]

NullItem ==
    [null |-> TRUE, hasId |-> FALSE, id |-> "", assetId |-> "",
     position |-> NotArr, rotation |-> NotArr]

NoIdItem(assetId, position, rotation) ==
    [null |-> FALSE, hasId |-> FALSE, id |-> "", assetId |-> assetId,
     position |-> position, rotation |-> rotation]

\* property key under which placedMeshes[item.id] stores the entry
KeyOf(item) == IF item.hasId THEN item.id ELSE "undefined"

P1 == Arr(Vec(0, 10, 0))
P2 == Arr(Vec(20, 10, 40))
R0 == Arr(Vec(0, 0, 0))
R1 == Arr(Vec(0, 1, 0))

\* entries a load callback delivers: two well-formed ones and a null
Items ==
    { Item("a", "sofa", P1, R0),
      Item("b", "table", P2, R1),
      NullItem }

\* every kind of malformed or unresolvable entry
BadItems ==
    { Item("c", "lamp", P1, R0),
      Item("d", "sofa", NotArr, R0),
      Item("e", "sofa", P1, Arr(<<Num(0), Num(1)>>)),
      Item("f", "sofa", Arr(<<Str, Num(10), Str>>), R0) }

\* entries whose ids are other strings: an integer-like one, the empty one
OpaqueIdItems ==
    { Item("b", "table", P2, R1),
      Item("1", "sofa", P1, R0),
      Item("", "sofa", P1, R0) }

RECURSIVE SeqsUpTo(_, _)
SeqsUpTo(S, n) ==
    IF n = 0 THEN {<<>>}
    ELSE LET shorter == SeqsUpTo(S, n - 1)
         IN shorter \cup {Append(s, x) : s \in shorter, x \in S}

ProjectLists == {Arr(l) : l \in SeqsUpTo(Items, MaxList)}

\* what a load callback can be handed: a list, or something that is no array
ProjectData == ProjectLists \cup {NotArr}

\* the same, and the lists with one bad entry before, between or after
WideProjectData ==
    ProjectData \cup
    {Arr(SubSeq(l, 1, i) \o <<bad>> \o SubSeq(l, i + 1, Len(l))) :
        <<l, i>> \in {<<m, j>> \in SeqsUpTo(Items, MaxList - 1) \X (0..MaxList) : j <= Len(m)},
        bad \in BadItems}

\* lists of entries with such ids
OpaqueIdData == {Arr(l) : l \in SeqsUpTo(OpaqueIdItems, MaxList)}

\* ids removeObject is called with
Ids == {"a", "b", "undefined"}

\* ------------------------------------------------------------------ state
VARIABLES
    placedMeshes,       \* manager.placedMeshes: id -> mesh
    placedBodies,       \* manager.placedBodies: id -> body
    scene,              \* placed-object meshes among scene.children, in order
    world,              \* placed-object bodies among world.bodies, in order
    placeableSurfaces,  \* placementTool.placeableSurfaces
    isLocked,           \* controls.isLocked
    assetIndex,         \* manager.assetIndex
    decorationKeys,     \* the palette DECORATION_ASSET_KEYS in use
    ghostVisible,       \* placementTool.ghostMesh.visible
    ghostPosition,      \* placementTool.ghostMesh.position
    rotationY,          \* placementTool.rotationY, in quarter turns
    svcReady,           \* dataService.isReady
    svcData,            \* dataService.data
    subscribers,        \* dataService.subscribers
    localStorage,       \* localStorage[MOCK_STORAGE_KEY]
    lastOp,             \* the operation that ran last and how it ended
    revision,           \* which copy of the scene modules is loaded
    isGrounded,         \* manager.isGrounded
    velocity,           \* manager.playerBody.velocity, in metres per second
    movementEnabled,    \* manager.movementEnabled
    move,               \* controls.moveForward/moveBackward/moveLeft/moveRight
    keysDown,           \* the key codes held down on the keyboard
    yaw,                \* cameraParent.rotation.y, in quarter turns
    frame,              \* the steps and the camera ray of the last frame
    dynamicMeshes,      \* manager.dynamicMeshes
    dynamicBodies,      \* manager.dynamicBodies
    playerPosition,     \* manager.playerBody.position
    cameraParentPosition, \* manager.cameraParent.position
    accumulator,        \* world.accumulator: wall-clock time not yet simulated
    components,         \* which of manager.renderer / camera / world are set
    phase,              \* how far the start-up has come
    backend,            \* the data service DataService.js selected
    closures,           \* the unsubscribe functions handed out and not yet called
    unsubscribed        \* the callbacks whose unsubscribe function was called

vars == <<placedMeshes, placedBodies, scene, world, placeableSurfaces,
          isLocked, assetIndex, decorationKeys, ghostVisible, ghostPosition,
          rotationY, svcReady, svcData, subscribers, localStorage, lastOp,
          revision, isGrounded, velocity, movementEnabled, move, keysDown, yaw, frame,
          dynamicMeshes, dynamicBodies, playerPosition, cameraParentPosition,
          accumulator, components, phase, backend, closures, unsubscribed>>

\* the part of the state the registry and persistence operations work on;
\* saves counts the manager.saveProject calls of the running operation
Cur ==
    [pm |-> placedMeshes, pb |-> placedBodies, scene |-> scene,
     world |-> world, surf |-> placeableSurfaces, ready |-> svcReady,
     data |-> svcData, subs |-> subscribers, store |-> localStorage,
     saves |-> 0, out |-> "ok", called |-> <<>>]

Handles(st) ==
    {st.scene[i].h : i \in 1..Len(st.scene)}
        \cup {st.world[i].h : i \in 1..Len(st.world)}
        \cup {st.pm[i].v.h : i \in 1..Len(st.pm)}
        \cup {st.pb[i].v.h : i \in 1..Len(st.pb)}

\* identity of a newly constructed Mesh/Body pair
FreshHandle(st) ==
    CHOOSE n \in 0..Cardinality(Handles(st)) :
        /\ n \notin Handles(st)
        /\ \A m \in 0..(n - 1) : m \in Handles(st)

\* scene.remove(mesh) / world.removeBody(body): by identity
Detach(children, obj) == SelectSeq(children, LAMBDA c : c.h # obj.h)

\* ----------------------------------------------------------- persistence
\* JSON.stringify then JSON.parse of a component: undefined becomes null
JSONComp(c) == IF c.t = "undef" THEN [t |-> "null", v |-> 0] ELSE c

JSONArr(a) ==
    IF a.isArray THEN Arr([i \in 1..Len(a.xs) |-> JSONComp(a.xs[i])]) ELSE a

JSONItem(it) ==
    [it EXCEPT !.position = JSONArr(@), !.rotation = JSONArr(@)]

JSONRoundTrip(data) ==
    IF data.isArray
        THEN Arr([i \in 1..Len(data.xs) |-> JSONItem(data.xs[i])])
        ELSE data

Absent == [state |-> "absent", value |-> Arr(<<>>)]
Garbage == [state |-> "garbage", value |-> Arr(<<>>)]
Stored(data) == [state |-> "json", value |-> JSONRoundTrip(data)]

\* a serializer that writes the rotation where the position belongs
SaveDataSwapped(pm) ==
    Arr([i \in 1..Len(pm) |->
            Item(pm[i].k, pm[i].v.assetId,
                 Arr(pm[i].v.rotation), Arr(pm[i].v.position))])

\* a serializer that keeps two rotation components instead of three
SaveDataShortRotation(pm) ==
    Arr([i \in 1..Len(pm) |->
            Item(pm[i].k, pm[i].v.assetId,
                 Arr(pm[i].v.position), Arr(SubSeq(pm[i].v.rotation, 1, 2)))])

\* the list manager.saveProject builds from placedMeshes
SaveData(pm) ==
    Arr([i \in 1..Len(pm) |->
            Item(pm[i].k, pm[i].v.assetId,
                 Arr(pm[i].v.position), Arr(pm[i].v.rotation))])

AssetById(assetId) == {k \in DOMAIN ASSETS : ASSETS[k].id = assetId}

\* the entry checks of loadProject
ItemAccepted(item) ==
    /\ ~item.null
    /\ item.position.isArray /\ Len(item.position.xs) >= 3
    /\ item.rotation.isArray /\ Len(item.rotation.xs) >= 3
    /\ AssetById(item.assetId) # {}

RECURSIVE RemoveObjectOp(_, _, _)
RECURSIVE SaveProjectOp(_)
RECURSIVE SvcSaveProject(_, _)
RECURSIVE NotifyFrom(_, _)
RECURSIVE LoadProjectOp(_, _)
RECURSIVE ClearFrom(_, _, _)
RECURSIVE LoadItemsFrom(_, _, _)

\* a removal that forgets the placedBodies entry and the body
RemoveObjectMeshOnly(st, id, skipSave) ==
    LET s1 == IF ObjHas(st.pm, id)
                  THEN [st EXCEPT !.scene = Detach(@, ObjGet(st.pm, id)),
                                  !.pm = ObjDelete(@, id)]
                  ELSE st
        s3 == [s1 EXCEPT !.surf = ObjValues(s1.pm)]
    IN IF skipSave THEN s3 ELSE SaveProjectOp(s3)

\* a removal that deletes both entries but leaves the body in the world
RemoveObjectKeepsBody(st, id, skipSave) ==
    LET s1 == IF ObjHas(st.pm, id)
                  THEN [st EXCEPT !.scene = Detach(@, ObjGet(st.pm, id)),
                                  !.pm = ObjDelete(@, id)]
                  ELSE st
        s2 == IF ObjHas(s1.pb, id)
                  THEN [s1 EXCEPT !.pb = ObjDelete(@, id)]
                  ELSE s1
        s3 == [s2 EXCEPT !.surf = ObjValues(s2.pm)]
    IN IF skipSave THEN s3 ELSE SaveProjectOp(s3)

RemoveObjectOp(st, id, skipSave) ==
    LET s1 == IF ObjHas(st.pm, id)
                  THEN [st EXCEPT !.scene = Detach(@, ObjGet(st.pm, id)),
                                  !.pm = ObjDelete(@, id)]
                  ELSE st
        s2 == IF ObjHas(s1.pb, id)
                  THEN [s1 EXCEPT !.world = Detach(@, ObjGet(s1.pb, id)),
                                  !.pb = ObjDelete(@, id)]
                  ELSE s1
        s3 == [s2 EXCEPT !.surf = ObjValues(s2.pm)]
    IN IF skipSave THEN s3 ELSE SaveProjectOp(s3)

SaveProjectOp(st) ==
    SvcSaveProject([st EXCEPT !.saves = @ + 1], SaveData(st.pm))

\* MockDataService.saveProject: dropped until ready, else store and echo
SvcSaveProject(st, data) ==
    IF ~st.ready THEN st
    ELSE NotifyFrom([st EXCEPT !.data = data, !.store = Stored(data)], 1)

\* callback(this.data): the manager's loadProject reloads the scene; any
\* other subscriber's callback is only noted
Invoke(st, callback) ==
    LET s1 == [st EXCEPT !.called = Append(@, callback)]
    IN IF callback = "loadProject" THEN LoadProjectOp(s1, s1.data) ELSE s1

\* notifySubscribers: subscribers.forEach(callback => callback(this.data))
NotifyFrom(st, i) ==
    IF i > Len(st.subs) THEN st
    ELSE NotifyFrom(Invoke(st, st.subs[i]), i + 1)

\* a clearing loop that steps over every other key
ClearFromSkipping(st, keys, i) ==
    IF i > Len(keys) THEN st
    ELSE ClearFrom(RemoveObjectOp(st, keys[i], TRUE), keys, i + 2)

\* a clearing loop whose removals save
ClearFromSaving(st, keys, i) ==
    IF i > Len(keys) THEN st
    ELSE ClearFrom(RemoveObjectOp(st, keys[i], FALSE), keys, i + 1)

\* Object.keys(placedMeshes).forEach(id => removeObject(id, true))
ClearFrom(st, keys, i) ==
    IF i > Len(keys) THEN st
    ELSE ClearFrom(RemoveObjectOp(st, keys[i], TRUE), keys, i + 1)

LoadItem(st, item) ==
    IF ~ItemAccepted(item) THEN st
    ELSE LET h == FreshHandle(st)
             rot == SubSeq(item.rotation.xs, 1, 3)
             boxMesh == [h |-> h, assetId |-> item.assetId,
                         position |-> SubSeq(item.position.xs, 1, 3),
                         rotation |-> rot]
             \* new Vec3().copy(item.position) reads .x/.y/.z of an array
             cannonBody == [h |-> h, mass |-> 0,
                            position |-> <<Undefined, Undefined, Undefined>>,
                            rotation |-> rot]
         IN [st EXCEPT !.scene = Append(@, boxMesh),
                       !.world = Append(@, cannonBody),
                       !.pm = ObjSet(@, KeyOf(item), boxMesh),
                       !.pb = ObjSet(@, KeyOf(item), cannonBody)]

LoadItemsFrom(st, items, i) ==
    IF i > Len(items) THEN st
    ELSE LoadItemsFrom(LoadItem(st, items[i]), items, i + 1)

\* a reload that does not clear the registry first
ClearNone(st) == st

ClearAll(st) == ClearFrom(st, ObjKeys(st.pm), 1)

\* a loadProject that leaves the scene alone when handed no array
LoadProjectOpKeeping(st, projectData) ==
    IF ~projectData.isArray THEN st
    ELSE LET loaded == LoadItemsFrom(ClearAll(st), projectData.xs, 1)
         IN [loaded EXCEPT !.surf = ObjValues(loaded.pm)]

LoadProjectOp(st, projectData) ==
    IF ~projectData.isArray THEN ClearAll(st)
    ELSE LET loaded == LoadItemsFrom(ClearAll(st), projectData.xs, 1)
         IN [loaded EXCEPT !.surf = ObjValues(loaded.pm)]

\* MockDataService.subscribeToProject(callback) up to its return statement:
\* queued until the service is ready, called at once and not queued after
SvcSubscribe(st, callback) ==
    IF ~st.ready THEN [st EXCEPT !.subs = Append(@, callback)]
                 ELSE Invoke(st, callback)

\* the index the returned function closes over: subscribers.length - 1
\* when subscribeToProject returns
ClosureIndex(st) == Len(st.subs) - 1

\* the returned function: if (index > -1) subscribers.splice(index, 1),
\* which removes nothing when index is past the end
Unsubscribe(subs, closure) ==
    IF closure.index > 0 - 1 /\ closure.index < Len(subs)
        THEN [i \in 1..(Len(subs) - 1) |->
                 IF i <= closure.index THEN subs[i] ELSE subs[i + 1]]
        ELSE subs

\* the data services DataService.js chooses between
Backends == {"mock", "firebase"}

\* dataService.subscribeToProject(manager.loadProject).  MockDataService
\* queues the callback until it is ready and calls it at once afterwards;
\* FirebaseDataService raises an Error until its init() has run
SubscribeToProjectOp(st, be) ==
    IF be = "firebase"
        THEN IF ~st.ready THEN [st EXCEPT !.out = "threw"]
                          ELSE [st EXCEPT !.subs = Append(@, "loadProject")]
        ELSE SvcSubscribe(st, "loadProject")

\* ------------------------------------------------------------ placement
\* a module that has a binding "manager" for placeObject to read
ManagerInScopeDeclared == TRUE

\* placeObject names a binding "manager" that its module never declares, so
\* evaluating manager.dynamicBodies raises a ReferenceError
ManagerInScope == FALSE

\* ids placeObject would generate (obj_<time>_<random>)
NewIds == {"obj1"}

\* getGhostData: clones of the ghost's position and rotation
GhostData == [position |-> ghostPosition, rotation |-> Vec(0, rotationY, 0)]

AssetKeyAt(i) ==
    IF i + 1 \in DOMAIN decorationKeys THEN decorationKeys[i + 1] ELSE "undefined"

\* a commit without the "if (!asset) return" guard: asset.size raises
PlaceObjectNoAssetGuard(st, newId) ==
    IF ~isLocked THEN [st EXCEPT !.out = "notLocked"]
    ELSE IF AssetKeyAt(assetIndex) \notin DOMAIN ASSETS
        THEN [st EXCEPT !.out = "threw"]
    ELSE LET asset == ASSETS[AssetKeyAt(assetIndex)]
             h == FreshHandle(st)
             boxMesh == [h |-> h, assetId |-> asset.id,
                         position |-> GhostData.position,
                         rotation |-> GhostData.rotation]
             cannonBody == [h |-> h, mass |-> 0,
                            position |-> GhostData.position,
                            rotation |-> GhostData.rotation]
         IN [st EXCEPT !.scene = Append(@, boxMesh),
                       !.world = Append(@, cannonBody),
                       !.out = "threw"]

PlaceObjectOp(st, newId) ==
    IF ~isLocked THEN [st EXCEPT !.out = "notLocked"]
    ELSE IF AssetKeyAt(assetIndex) \notin DOMAIN ASSETS
        THEN [st EXCEPT !.out = "noAsset"]
    ELSE LET asset == ASSETS[AssetKeyAt(assetIndex)]
             h == FreshHandle(st)
             boxMesh == [h |-> h, assetId |-> asset.id,
                         position |-> GhostData.position,
                         rotation |-> GhostData.rotation]
             cannonBody == [h |-> h, mass |-> 0,
                            position |-> GhostData.position,
                            rotation |-> GhostData.rotation]
             s1 == [st EXCEPT !.scene = Append(@, boxMesh),
                              !.world = Append(@, cannonBody)]
         IN IF ~ManagerInScope THEN [s1 EXCEPT !.out = "threw"]
            ELSE LET s2 == [s1 EXCEPT !.pm = ObjSet(@, newId, boxMesh),
                                      !.pb = ObjSet(@, newId, cannonBody)]
                     s3 == [s2 EXCEPT !.surf = ObjValues(s2.pm)]
                 IN [SaveProjectOp(s3) EXCEPT !.out = "placed"]

\* Object.keys(placedMeshes).pop() and "if (lastId)": undefined for an
\* empty registry, and the empty string is falsy as well
DeleteLastObjectOp(st) ==
    IF Len(st.pm) = 0 THEN [st EXCEPT !.out = "empty"]
    ELSE LET lastId == st.pm[Len(st.pm)].k
         IN IF lastId = "" THEN [st EXCEPT !.out = "falsy id"]
            ELSE [SaveProjectOp(RemoveObjectOp(st, lastId, FALSE))
                     EXCEPT !.out = "deleted"]

\* ---------------------------------------------------------------- actions
\* lastOp: the operation, its arguments, how it ended, how many times it
\* called manager.saveProject, the registry size it started from, and the
\* subscribers' callbacks the data service invoked, in order
Op(name, id, skipSave, data, s) ==
    [op |-> name, id |-> id, skipSave |-> skipSave, data |-> data,
     out |-> s.out, saves |-> s.saves, before |-> Len(placedMeshes),
     called |-> s.called]

Apply(s) ==
    /\ placedMeshes' = s.pm
    /\ placedBodies' = s.pb
    /\ scene' = s.scene
    /\ world' = s.world
    /\ placeableSurfaces' = s.surf
    /\ svcReady' = s.ready
    /\ svcData' = s.data
    /\ subscribers' = s.subs
    /\ localStorage' = s.store

RegistryVars == <<placedMeshes, placedBodies, scene, world, placeableSurfaces,
                  svcReady, svcData, subscribers, localStorage>>

ToolVars == <<isLocked, assetIndex, decorationKeys, ghostVisible,
              ghostPosition, rotationY>>

PlayerVars == <<revision, isGrounded, velocity, movementEnabled, move, keysDown, yaw>>

WorldVars == <<dynamicMeshes, dynamicBodies, playerPosition,
               cameraParentPosition, accumulator>>

BootVars == <<components, phase, backend>>

ClientVars == <<closures, unsubscribed>>

\* manager.dynamicBodies.push(cannonBody) of placeObject: the statement
\* pushes the placed body, and no mesh, when it does not raise
PushPlacedBody(bodies, s) ==
    IF s.out # "placed" THEN bodies
    ELSE LET cannonBody == s.world[Len(s.world)]
         IN Append(bodies, [position |-> cannonBody.position,
                            quaternion |-> cannonBody.rotation,
                            inWorld |-> TRUE,
                            obj |-> <<"placed", cannonBody.h>>])

\* a place action: controls.onPlaceObject -> manager.placeObject
PlaceObject ==
    \E newId \in NewIds :
        LET s == PlaceObjectOp(Cur, newId)
        IN /\ Len(s.scene) <= MaxScene
           /\ Apply(s)
           /\ dynamicBodies' = PushPlacedBody(dynamicBodies, s)
           /\ lastOp' = Op("placeObject", newId, FALSE, NotArr, s)
           /\ UNCHANGED <<ToolVars, PlayerVars, dynamicMeshes, playerPosition,
                          cameraParentPosition, accumulator, BootVars, ClientVars, frame>>

RemoveObject ==
    \E id \in Ids, skipSave \in BOOLEAN :
        LET s == RemoveObjectOp(Cur, id, skipSave)
            found == ObjHas(placedMeshes, id) \/ ObjHas(placedBodies, id)
        IN /\ Apply(s)
           /\ lastOp' = Op("removeObject", id, skipSave, NotArr,
                           [s EXCEPT !.out = IF found THEN "removed" ELSE "unknown"])
           /\ UNCHANGED <<ToolVars, PlayerVars, WorldVars, BootVars, ClientVars,
                   frame>>

\* click on deleteButton
DeleteLastObject ==
    LET s == DeleteLastObjectOp(Cur)
    IN /\ Apply(s)
       /\ lastOp' = Op("deleteLastObject", "", FALSE, NotArr, s)
       /\ UNCHANGED <<ToolVars, PlayerVars, WorldVars, BootVars, ClientVars,
                   frame>>

\* click on saveButton
SaveButton ==
    LET s == SaveProjectOp(Cur)
    IN /\ Apply(s)
       /\ lastOp' = Op("saveProject", "", FALSE, NotArr, s)
       /\ UNCHANGED <<ToolVars, PlayerVars, WorldVars, BootVars, ClientVars,
                   frame>>

\* the persistence backend hands projectData to the subscribed loadProject
LoadProjectFrom(D) ==
    \E projectData \in D :
        LET s == LoadProjectOp(Cur, projectData)
        IN /\ Len(s.scene) <= MaxScene
           /\ Apply(s)
           /\ lastOp' = Op("loadProject", "", FALSE, projectData, s)
           /\ UNCHANGED <<ToolVars, PlayerVars, WorldVars, BootVars, ClientVars,
                   frame>>

LoadProject == LoadProjectFrom(ProjectData)

LoadProjectWide == LoadProjectFrom(WideProjectData)

LoadProjectOpaque == LoadProjectFrom(OpaqueIdData)

\* MockDataService.init after its start-up delay
ServiceInit ==
    /\ backend = "mock"
    /\ ~svcReady
    /\ LET parsed == IF localStorage.state = "json"
                         THEN localStorage.value
                         ELSE IF localStorage.state = "garbage"
                                  THEN Arr(<<>>) ELSE svcData
           s == NotifyFrom([Cur EXCEPT !.data = parsed, !.ready = TRUE], 1)
       IN /\ Len(s.scene) <= MaxScene
          /\ Apply(s)
          /\ lastOp' = Op("init", "", FALSE, parsed, s)
    /\ UNCHANGED <<ToolVars, PlayerVars, WorldVars, BootVars, ClientVars,
                   frame>>

\* other subscribers of the data service
Callbacks == {"cb1", "cb2"}

\* a client calls subscribeToProject(callback) and keeps the function it
\* returns
ClientSubscribe ==
    \E callback \in Callbacks :
        /\ backend = "mock"
        /\ callback \notin unsubscribed
        /\ \A c \in closures : c.cb # callback
        /\ LET s == SvcSubscribe(Cur, callback)
           IN /\ Len(s.scene) <= MaxScene
              /\ Apply(s)
              /\ closures' = closures \cup
                                {[cb |-> callback, index |-> ClosureIndex(s)]}
              /\ lastOp' = Op("subscribe", callback, FALSE, NotArr, s)
        /\ UNCHANGED <<ToolVars, PlayerVars, WorldVars, BootVars, unsubscribed,
                       frame>>

\* a client calls the function subscribeToProject returned
ClientUnsubscribe ==
    \E closure \in closures :
        /\ subscribers' = Unsubscribe(subscribers, closure)
        /\ closures' = closures \ {closure}
        /\ unsubscribed' = unsubscribed \cup {closure.cb}
        /\ lastOp' = Op("unsubscribe", closure.cb, FALSE, NotArr, Cur)
        /\ UNCHANGED <<placedMeshes, placedBodies, scene, world,
                       placeableSurfaces, svcReady, svcData, localStorage,
                       ToolVars, PlayerVars, WorldVars, BootVars, frame>>

\* pointerlockchange: the lock is acquired or released
PointerLockChange ==
    /\ isLocked' = ~isLocked
    /\ UNCHANGED <<RegistryVars, assetIndex, decorationKeys, ghostVisible,
                   ghostPosition, rotationY, lastOp, PlayerVars, WorldVars, BootVars, ClientVars,
                   frame>>

\* an index change that keeps the sign of the remainder
CycleIndexNoWrap(index, direction, n) == JSRem(index + direction, n)

\* (index + direction) % n, brought back into 0..n-1 when negative
CycleIndex(index, direction, n) ==
    LET r == JSRem(index + direction, n)
    IN IF r < 0 THEN r + n ELSE r

\* an asset change that builds the ghost anew, unrotated
ChangeAssetResettingYaw ==
    \E direction \in {0 - 1, 1} :
           /\ assetIndex' = CycleIndex(assetIndex, direction, Len(decorationKeys))
           /\ rotationY' = 0
           /\ UNCHANGED <<RegistryVars, isLocked, decorationKeys, ghostVisible,
                          ghostPosition, lastOp, PlayerVars, WorldVars, BootVars, ClientVars,
                          frame>>

\* Q / E: changeAsset(-1) / changeAsset(1)
ChangeAsset ==
    \E direction \in {0 - 1, 1} :
           /\ assetIndex' = CycleIndex(assetIndex, direction, Len(decorationKeys))
           /\ UNCHANGED <<RegistryVars, isLocked, decorationKeys, ghostVisible,
                          ghostPosition, rotationY, lastOp, PlayerVars, WorldVars, BootVars, ClientVars,
                   frame>>

\* changeAsset(direction), remembering the call and the index it started from
ChangeAssetOp(name, direction) ==
    /\ assetIndex' = CycleIndex(assetIndex, direction, Len(decorationKeys))
    /\ lastOp' = [op |-> name, direction |-> direction, from |-> assetIndex]
    /\ UNCHANGED <<RegistryVars, isLocked, decorationKeys, ghostVisible,
                   ghostPosition, rotationY, PlayerVars, WorldVars, BootVars, ClientVars,
                   frame>>

\* a click on swatch index of the palette: changeAsset(index - assetIndex)
SwatchClick ==
    \E index \in 0..(Len(decorationKeys) - 1) :
        ChangeAssetOp("swatch", index - assetIndex)

\* right click: rotateObject -> rotateGhost(PI / 2)
RotateObject ==
    /\ isLocked
    /\ rotationY < MaxTurns
    /\ rotationY' = rotationY + 1
    /\ UNCHANGED <<RegistryVars, isLocked, assetIndex, decorationKeys,
                   ghostVisible, ghostPosition, lastOp, PlayerVars, WorldVars, BootVars, ClientVars,
                   frame>>

\* the floor mesh initPhysics adds to the scene: a plane turned a quarter
\* turn about x, tagged with the floor asset's id
FloorMesh ==
    [h |-> 0 - 1, assetId |-> ASSETS.FLOOR.id, position |-> Vec(0, 0, 0),
     rotation |-> Vec(0 - 1, 0, 0)]

\* what the camera ray meets: hit tells whether the floor mesh is among the
\* intersections (at x10, z10, in tenths of a metre) and placed whether a
\* registered mesh is
NoHit == [hit |-> FALSE, placed |-> FALSE, x10 |-> 0, z10 |-> 0]

FloorHits ==
    {[hit |-> TRUE, placed |-> FALSE, x10 |-> 74, z10 |-> 0 - 25],
     [hit |-> TRUE, placed |-> FALSE, x10 |-> 70, z10 |-> 0 - 30]}

\* rays that meet a registered mesh: with nothing behind it, or with the
\* floor behind it
PlacedHits ==
    {[hit |-> FALSE, placed |-> TRUE, x10 |-> 0, z10 |-> 0],
     [hit |-> TRUE, placed |-> TRUE, x10 |-> 74, z10 |-> 0 - 25]}

CameraRays ==
    IF Len(placedMeshes) > 0
        THEN {NoHit} \cup FloorHits \cup PlacedHits
        ELSE {NoHit} \cup FloorHits

gridStep == 1

\* a ghost update that truncates instead of rounding to the nearest step
GhostUpdateTruncating(ray) ==
    IF ray.hit
        THEN IF AssetKeyAt(assetIndex) \in DOMAIN ASSETS
                 THEN LET asset == ASSETS[AssetKeyAt(assetIndex)]
                          snappedX == (ray.x10 \div (10 * gridStep)) * gridStep
                          snappedZ == (ray.z10 \div (10 * gridStep)) * gridStep
                          snappedY == asset.size[2] \div 2
                      IN /\ ghostPosition' = Vec(snappedX * 20, snappedY, snappedZ * 20)
                         /\ ghostVisible' = TRUE
                 ELSE UNCHANGED <<ghostPosition, ghostVisible>>
        ELSE /\ ghostVisible' = FALSE
             /\ UNCHANGED ghostPosition

\* updateGhostPosition(currentAssetKey): only the floor mesh counts as a
\* hit; with a floor hit and a key the catalog lacks, asset.size raises a
\* TypeError and the ghost stays as it was
GhostUpdate(ray) ==
    IF ray.hit
        THEN IF AssetKeyAt(assetIndex) \in DOMAIN ASSETS
                 THEN LET asset == ASSETS[AssetKeyAt(assetIndex)]
                          snappedX == SnapToGrid(ray.x10, gridStep)
                          snappedZ == SnapToGrid(ray.z10, gridStep)
                          snappedY == asset.size[2] \div 2
                      IN /\ ghostPosition' = Vec(snappedX * 20, snappedY, snappedZ * 20)
                         /\ ghostVisible' = TRUE
                 ELSE UNCHANGED <<ghostPosition, ghostVisible>>
        ELSE /\ ghostVisible' = FALSE
             /\ UNCHANGED ghostPosition

\* a call of placementTool.updateGhostPosition
UpdateGhostPosition ==
    \E ray \in CameraRays :
        /\ GhostUpdate(ray)
        /\ frame' = [frame EXCEPT !.ray = ray]
        /\ UNCHANGED <<RegistryVars, isLocked, assetIndex, decorationKeys,
                       rotationY, lastOp, PlayerVars, WorldVars, BootVars, ClientVars>>

\* ---------------------------------------------------------------- player
MOVEMENT_SPEED == 25

JUMP_VELOCITY == 15

\* the result of 0 * Infinity
NaN == [t |-> "nan", v |-> 0]

\* the two copies of the scene modules: the builder (scene/SceneManager.js,
\* scene/SceneInitializer.js) and the block-drop game with the movement gate
Revisions == {"builder", "drop"}

\* initControls builds the controls without their fourth argument, so
\* controls.manager is undefined and the handlers never consult the gate
ControlsHaveManager == FALSE

\* "if (this.manager && !this.manager.movementEnabled) return" of a handler
InputBlocked == ControlsHaveManager /\ movementEnabled # "true"

PlayerOp(name, out) ==
    [op |-> name, id |-> "", skipSave |-> FALSE, data |-> NotArr,
     out |-> out, saves |-> 0, before |-> 0, called |-> <<>>]

\* a jump that does not look at isGrounded
HandleJumpAlways ==
    [vy |-> Num(JUMP_VELOCITY), grounded |-> FALSE, out |-> "granted"]

\* handleJump of the builder
HandleJumpOp ==
    IF isGrounded
        THEN [vy |-> Num(JUMP_VELOCITY), grounded |-> FALSE, out |-> "granted"]
        ELSE [vy |-> velocity[2], grounded |-> isGrounded, out |-> "airborne"]

\* a gated jump that leaves isGrounded set
HandleJumpKeepsGrounded ==
    IF movementEnabled # "true"
        THEN [vy |-> velocity[2], grounded |-> isGrounded, out |-> "disabled"]
    ELSE IF isGrounded
        THEN [vy |-> Num(JUMP_VELOCITY), grounded |-> TRUE, out |-> "granted"]
        ELSE [vy |-> velocity[2], grounded |-> isGrounded, out |-> "airborne"]

\* handleJump of the block-drop game: "if (!this.movementEnabled) return"
HandleJumpDropOp ==
    IF movementEnabled # "true"
        THEN [vy |-> velocity[2], grounded |-> isGrounded, out |-> "disabled"]
    ELSE IF isGrounded
        THEN [vy |-> Num(JUMP_VELOCITY), grounded |-> FALSE, out |-> "granted"]
        ELSE [vy |-> velocity[2], grounded |-> isGrounded, out |-> "airborne"]

\* Space: _onKeyDown -> controls.onJump -> manager.handleJump
HandleJump ==
    /\ isLocked
    /\ ~InputBlocked
    /\ LET r == IF revision = "builder" THEN HandleJumpOp ELSE HandleJumpDropOp
       IN /\ velocity' = [velocity EXCEPT ![2] = r.vy]
          /\ isGrounded' = r.grounded
          /\ lastOp' = PlayerOp("handleJump", r.out)
    /\ UNCHANGED <<RegistryVars, ToolVars, revision, movementEnabled, move, keysDown,
                   yaw, frame, WorldVars, BootVars, ClientVars>>

\* the movement flags W / S / A / D (and the arrows) drive
MoveKeys == {"forward", "backward", "left", "right"}

NoKeys == [k \in MoveKeys |-> FALSE]

\* _onKeyDown of a movement key
KeyDown ==
    \E key \in MoveKeys :
        /\ isLocked
        /\ ~InputBlocked
        /\ move' = [move EXCEPT ![key] = TRUE]
        /\ lastOp' = PlayerOp("keyDown", key)
        /\ UNCHANGED <<RegistryVars, ToolVars, revision, isGrounded, velocity, keysDown,
                       movementEnabled, yaw, frame, WorldVars, BootVars, ClientVars>>

\* _onKeyUp of a movement key
KeyUp ==
    \E key \in MoveKeys :
        /\ isLocked
        /\ ~InputBlocked
        /\ move' = [move EXCEPT ![key] = FALSE]
        /\ lastOp' = PlayerOp("keyUp", key)
        /\ UNCHANGED <<RegistryVars, ToolVars, revision, isGrounded, velocity, keysDown,
                       movementEnabled, yaw, frame, WorldVars, BootVars, ClientVars>>

\* _onKeyDown of Q / E: onColorChange(-1) / onColorChange(1), which is
\* manager.changeAsset
CycleAsset ==
    /\ isLocked
    /\ ~InputBlocked
    /\ \E direction \in {0 - 1, 1} : ChangeAssetOp("changeAsset", direction)

\* the key codes of the movement flags
KeyCodes ==
    [KeyW |-> "forward", ArrowUp |-> "forward",
     KeyS |-> "backward", ArrowDown |-> "backward",
     KeyA |-> "left", ArrowLeft |-> "left",
     KeyD |-> "right", ArrowRight |-> "right"]

\* the codes the keyboard is watched for: both keys of one direction and a
\* key of another
WatchedCodes == {"KeyW", "ArrowUp", "KeyD"}

\* the directions with a key held down
HeldDirections(down) == {KeyCodes[code] : code \in down}

\* a keydown event of a movement key, with the keyboard's state: the
\* handler returns at once unless the pointer is locked and input allowed
KeyPress ==
    \E code \in WatchedCodes :
        /\ keysDown' = keysDown \cup {code}
        /\ move' = IF isLocked /\ ~InputBlocked
                       THEN [move EXCEPT ![KeyCodes[code]] = TRUE]
                       ELSE move
        /\ lastOp' = PlayerOp("keyDown", code)
        /\ UNCHANGED <<RegistryVars, ToolVars, revision, isGrounded, velocity,
                       movementEnabled, yaw, frame, WorldVars, BootVars, ClientVars>>

\* a keyup event of a movement key that was down
KeyRelease ==
    \E code \in WatchedCodes \cap keysDown :
        /\ keysDown' = keysDown \ {code}
        /\ move' = IF isLocked /\ ~InputBlocked
                       THEN [move EXCEPT ![KeyCodes[code]] = FALSE]
                       ELSE move
        /\ lastOp' = PlayerOp("keyUp", code)
        /\ UNCHANGED <<RegistryVars, ToolVars, revision, isGrounded, velocity,
                       movementEnabled, yaw, frame, WorldVars, BootVars, ClientVars>>

\* _onMouseMove: cameraParent.rotation.y -= movementX * mouseSensitivity,
\* taken a quarter turn at a time
MouseMove ==
    \E turn \in {1, 3} :
        /\ isLocked
        /\ ~InputBlocked
        /\ (yaw + turn) % 4 <= MaxYaw
        /\ yaw' = (yaw + turn) % 4
        /\ lastOp' = PlayerOp("mouseMove", "ok")
        /\ UNCHANGED <<RegistryVars, ToolVars, revision, isGrounded, velocity,
                       movementEnabled, move, keysDown, frame, WorldVars, BootVars, ClientVars>>

\* setMovementEnabled(enabled): controls.setEnabled is not a function of the
\* controls (they define setControlsEnabled), so the flags are left alone
SetMovementEnabled(enabled, v) ==
    [enabled |-> IF enabled THEN "true" ELSE "false",
     velocity |-> IF enabled THEN v ELSE <<Num(0), Num(0), Num(0)>>]

\* manager.fadeScreenToRed(): the fade starts with setMovementEnabled(false)
FadeScreenToRed ==
    /\ revision = "drop"
    /\ LET s == SetMovementEnabled(FALSE, velocity)
       IN /\ movementEnabled' = s.enabled
          /\ velocity' = s.velocity
    /\ lastOp' = PlayerOp("fadeScreenToRed", "ok")
    /\ UNCHANGED <<RegistryVars, ToolVars, revision, isGrounded, move, keysDown, yaw, frame,
                   WorldVars, BootVars, ClientVars>>

\* positions and orientations: <<x, y, z>> in twentieths of a metre and a
\* quaternion <<x, y, z, w>>
QIdentity == <<0, 0, 0, 1>>

\* a half turn about the y axis
QTurned == <<0, 1, 0, 0>>

\* initThree / initPhysics: the player starts at (0, playerRadius, 5)
PlayerStart == <<0, 30, 100>>

\* restartGame: playerBody.position.set(0, 2, 0)
RestartPosition == <<0, 40, 0>>

\* the i-th pushable box of initDynamicObjects / restartGame, for one draw
\* of Math.random(): a 2 m cube resting 0.1 m above the floor
BoxMesh(i) ==
    [position |-> <<0, 22, (0 - 100) * i>>, quaternion |-> QIdentity,
     obj |-> <<"box", i>>]

BoxBody(i) ==
    [position |-> <<0, 22, (0 - 100) * i>>, quaternion |-> QIdentity,
     inWorld |-> TRUE, obj |-> <<"box", i>>]

NewBoxMeshes == [i \in 1..BoxCount |-> BoxMesh(i)]

NewBoxBodies == [i \in 1..BoxCount |-> BoxBody(i)]

\* manager.restartGame(): disables movement, puts the player back at rest,
\* replaces the dynamic objects by new boxes and enables movement again
RestartGameOp ==
    LET s1 == SetMovementEnabled(FALSE, velocity)
        s2 == SetMovementEnabled(TRUE, s1.velocity)
    IN /\ movementEnabled' = s2.enabled
       /\ velocity' = s2.velocity
       /\ playerPosition' = RestartPosition
       /\ cameraParentPosition' = RestartPosition
       /\ dynamicMeshes' = NewBoxMeshes
       /\ dynamicBodies' = NewBoxBodies
       /\ UNCHANGED <<RegistryVars, ToolVars, revision, isGrounded, move, keysDown, yaw,
                      frame, accumulator, BootVars, ClientVars>>

\* the copies of the action module that define restartGame: part_000 (and
\* part_004, the same text) and part_003
RestartCopies == {"part_000", "part_003"}

\* restartGame of part_003: after setMovementEnabled(false) it calls
\* this.playerBody.set(0, 10, 0); a CANNON.Body has no method set, so the
\* call raises a TypeError and the rest of the function does not run
RestartGameRaisingOp ==
    LET s1 == SetMovementEnabled(FALSE, velocity)
    IN /\ movementEnabled' = s1.enabled
       /\ velocity' = s1.velocity
       /\ UNCHANGED <<RegistryVars, ToolVars, revision, isGrounded, move, keysDown, yaw,
                      frame, WorldVars, BootVars, ClientVars>>

RestartGameCopy(copy) ==
    IF copy = "part_003" THEN RestartGameRaisingOp ELSE RestartGameOp

RestartOut(copy) == IF copy = "part_003" THEN "threw" ELSE "ok"

RestartGame ==
    /\ revision = "drop"
    /\ \E copy \in RestartCopies :
          /\ RestartGameCopy(copy)
          /\ lastOp' = PlayerOp("restartGame", RestartOut(copy))

\* keydown of KeyR, setupKeyboardRestartListener of the block-drop game:
\* preventDefault and manager.restartGame(), whatever movementEnabled is in
\* part_000, and only "if (!manager.movementEnabled)" in part_003
KeyRestart ==
    /\ revision = "drop"
    /\ \E copy \in RestartCopies :
          /\ copy = "part_003" => movementEnabled # "true"
          /\ RestartGameCopy(copy)
          /\ lastOp' = PlayerOp("keyR", movementEnabled)

\* _cameraDirection: (0, 0, -1) turned by the yaw, as <<x, z>>
Forward(y) ==
    CASE y = 0 -> <<0, 0 - 1>>
      [] y = 1 -> <<0 - 1, 0>>
      [] y = 2 -> <<0, 1>>
      [] OTHER -> <<1, 0>>

\* rightVector: the cross product of the up axis and the camera direction
Right(y) == <<Forward(y)[2], 0 - Forward(y)[1]>>

Sign(flag) == IF flag THEN 1 ELSE 0

\* the sum the addScaledVector calls build, before any scaling
InputDirection(m, y) ==
    LET f == Sign(m["forward"]) - Sign(m["backward"])
        r == Sign(m["left"]) - Sign(m["right"])
    IN <<f * Forward(y)[1] + r * Right(y)[1], f * Forward(y)[2] + r * Right(y)[2]>>

\* frame times clock.getDelta() returns, in units of 1/960 s, so that 16 is
\* one sixtieth of a second; the first call of a clock returns 0
Deltas == {0, 16}

\* frame times of a display that runs fast, on time, slow, and stalls
LongDeltas == {8, 16, 40, 100}

fixedTimeStep == 16

maxSubSteps == 3

RECURSIVE SubSteps(_, _, _, _)
\* the loop of world.step: internalStep(dt) while the accumulator holds a
\* whole step and fewer than maxSub sub-steps have run
SubSteps(acc, dt, maxSub, n) ==
    IF acc >= dt /\ n < maxSub
        THEN SubSteps(acc - dt, dt, maxSub, n + 1)
        ELSE [substeps |-> n, accumulator |-> acc]

\* world.step(dt, timeSinceLastCalled, maxSubSteps) from the accumulator acc:
\* a call with no time passed is one fixed step
WorldStep(acc, dt, timeSinceLastCalled, maxSub) ==
    IF timeSinceLastCalled = 0
        THEN [substeps |-> 1, accumulator |-> acc]
        ELSE SubSteps(acc + timeSinceLastCalled, dt, maxSub, 0)

\* a call that leaves out maxSubSteps, for which world.step takes ten
StepWorldDefaultSubSteps(acc, delta) == WorldStep(acc, fixedTimeStep, delta, 10)

\* animate: this.world.step(fixedTimeStep, delta, maxSubSteps)
StepWorld(acc, delta) == WorldStep(acc, fixedTimeStep, delta, maxSubSteps)

\* the builder's velocity write: the sum is scaled by MOVEMENT_SPEED * delta
\* and then multiplied by 1 / delta
VelocityWrite(c, delta) ==
    IF delta = 0 THEN NaN ELSE Num((c * MOVEMENT_SPEED * delta) \div delta)

\* the block-drop game's velocity write: the sum scaled by MOVEMENT_SPEED
VelocityWriteDrop(c) == Num(c * MOVEMENT_SPEED)

\* vertical velocities world.step can leave the player with
PhysicsVy(vy) == {vy, Num(0), Num(0 - 5)}

\* the steps of a frame the animate callback runs, in order; a collide event
\* of the player body is dispatched from inside world.step
FrameSteps(rev, contact, ghostThrows) ==
    <<"physics">>
        \o (IF contact THEN <<"grounding">> ELSE <<>>)
        \o <<"movement", "sync">>
        \o (IF rev = "builder" THEN <<"ghost">> ELSE <<>>)
        \o (IF rev = "builder" /\ ghostThrows THEN <<>> ELSE <<"render">>)

AllComponents == {"renderer", "camera", "world"}

\* what one world.step does to the tracked bodies: whether it displaces the
\* player, and which dynamic bodies it displaces
StillWorld == {[player |-> FALSE, boxes |-> {}]}

Motions == [player : BOOLEAN, boxes : SUBSET (1..(BoxCount + MaxDrops))]

\* a body pushed 1 m along x and turned
Pushed(b) ==
    IF b.position[1] < 20 * MaxPush
        THEN [b EXCEPT !.position = <<b.position[1] + 20, b.position[2], b.position[3]>>,
                       !.quaternion = QTurned]
        ELSE b

PushedPlayer(p) == IF p[1] < 20 * MaxPush THEN <<p[1] + 20, p[2], p[3]>> ELSE p

\* the bodies after world.step: only bodies of the world move
StepBodies(bodies, motion) ==
    [i \in 1..Len(bodies) |->
        IF i \in motion.boxes /\ bodies[i].inWorld THEN Pushed(bodies[i])
                                                  ELSE bodies[i]]

\* dropRandomPentomino, for one draw of Math.random(): a piece 50 m above
\* the ground, mesh and body with the same position and orientation; obj
\* tells the n-th object of the arrays from the others
DropMesh(n) ==
    [position |-> <<20, 1000, 20>>, quaternion |-> QTurned,
     obj |-> <<"piece", n>>]

DropBody(n) ==
    [position |-> <<20, 1000, 20>>, quaternion |-> QTurned, inWorld |-> TRUE,
     obj |-> <<"piece", n>>]

\* a sync that copies positions and leaves the orientations
SyncDynamicPositionOnly(rev, meshes, bodies) ==
    [i \in 1..Len(meshes) |-> [meshes[i] EXCEPT !.position = bodies[i].position]]

\* the sync loop of animate: mesh.position.copy(body.position) and
\* mesh.quaternion.copy(body.quaternion) for every index of dynamicMeshes;
\* the block-drop game copies only "if (body.world)"
SyncDynamic(rev, meshes, bodies) ==
    [i \in 1..Len(meshes) |->
        IF rev = "drop" /\ ~bodies[i].inWorld
            THEN meshes[i]
            ELSE [meshes[i] EXCEPT !.position = bodies[i].position,
                                   !.quaternion = bodies[i].quaternion]]

\* the body of one animate call with the components comps
AnimateFrame(comps, delta, contact, vy, ray, motion, drop) ==
    IF revision = "drop" /\ comps # AllComponents
        THEN \* "Cannot animate: Core component(s) are missing": return
             /\ phase' = "stopped"
             /\ lastOp' = PlayerOp("animate", "components missing")
             /\ UNCHANGED <<isGrounded, velocity, ghostPosition, ghostVisible,
                            frame, WorldVars>>
    ELSE IF comps # AllComponents
        THEN \* the builder schedules the next frame and this.world.step
             \* raises a TypeError on the missing world
             /\ phase' = "started"
             /\ lastOp' = PlayerOp("animate", "threw")
             /\ frame' = [frame EXCEPT !.steps = <<"threw">>]
             /\ UNCHANGED <<isGrounded, velocity, ghostPosition, ghostVisible,
                            WorldVars>>
    ELSE
        \E c \in {InputDirection(move, yaw)},
           stepped \in {StepWorld(accumulator, delta)} :
        LET ghostThrows == ray.hit /\ AssetKeyAt(assetIndex) \notin DOMAIN ASSETS
            dropped == revision = "drop" /\ drop
            meshes == IF dropped THEN Append(dynamicMeshes, DropMesh(Len(dynamicMeshes) + 1))
                                 ELSE dynamicMeshes
            bodies == IF dropped THEN Append(dynamicBodies, DropBody(Len(dynamicMeshes) + 1))
                                 ELSE dynamicBodies
        IN /\ phase' = "started"
           /\ accumulator' = stepped.accumulator
           /\ isGrounded' = (isGrounded \/ contact)
           /\ velocity' =
                IF revision = "builder"
                    THEN <<VelocityWrite(c[1], delta), vy, VelocityWrite(c[2], delta)>>
                    ELSE <<VelocityWriteDrop(c[1]), vy, VelocityWriteDrop(c[2])>>
           \* world.step moves the bodies
           /\ dynamicBodies' = IF stepped.substeps > 0
                                   THEN StepBodies(bodies, motion)
                                   ELSE bodies
           /\ playerPosition' = IF stepped.substeps > 0 /\ motion.player
                                    THEN PushedPlayer(playerPosition)
                                    ELSE playerPosition
           \* the sync reads the bodies as the step left them
           /\ cameraParentPosition' = playerPosition'
           /\ dynamicMeshes' = SyncDynamic(revision, meshes, dynamicBodies')
           /\ IF revision = "builder"
                 THEN /\ GhostUpdate(ray)
                      /\ frame' = [steps |-> FrameSteps(revision, contact, ghostThrows),
                                   ray |-> ray,
                                   substeps |-> stepped.substeps,
                                   late |-> delta > maxSubSteps * fixedTimeStep]
                 ELSE /\ UNCHANGED <<ghostPosition, ghostVisible>>
                      /\ frame' = [steps |-> FrameSteps(revision, contact, FALSE),
                                   ray |-> frame.ray,
                                   substeps |-> stepped.substeps,
                                   late |-> delta > maxSubSteps * fixedTimeStep]
           /\ lastOp' = PlayerOp("animate", "ok")

\* one animate callback, over the frame times deltas, the physics outcomes
\* motions, the values drops of "a piece is due" and the camera rays rays
AnimateWith(deltas, motions, drops, rays) ==
    /\ phase = "started"
    /\ \E delta \in deltas, drop \in drops :
        /\ drop => Len(dynamicMeshes) < BoxCount + MaxDrops
        /\ StepWorld(accumulator, delta).accumulator <= MaxAccumulator
        /\ \E contact \in BOOLEAN, vy \in PhysicsVy(velocity[2]),
              ray \in rays, motion \in motions :
              AnimateFrame(components, delta, contact, vy, ray, motion, drop)
    /\ UNCHANGED <<RegistryVars, isLocked, assetIndex, decorationKeys,
                   rotationY, revision, movementEnabled, move, keysDown, yaw,
                   components, backend, ClientVars>>

\* frames on time over a world at rest
Animate == AnimateWith(Deltas, StillWorld, {FALSE}, CameraRays)

\* frames that push the bodies around and drop pieces, the camera turned
\* to the sky
AnimateMoving == AnimateWith({16}, Motions, BOOLEAN, {NoHit})

\* frames on time that drop pieces on a world at rest
AnimateDropping == AnimateWith({16}, StillWorld, BOOLEAN, CameraRays)

\* frames of any length
AnimateLate == AnimateWith(LongDeltas, StillWorld, {FALSE}, CameraRays)

\* ----------------------------------------------------------------- start
\* how the constructor can end: it returns, new WebGLRenderer raises (no
\* WebGL), or setupDataListeners raises (no saveButton element)
ConstructorEnds == {"ok", "renderer", "listeners"}

\* initThree sets renderer and camera, initPhysics the world
ComponentsAfter(failure) ==
    IF failure = "renderer" THEN {} ELSE AllComponents

\* a main that calls animate whether or not the constructor returned
StartsLoopAlways(failure) == TRUE

\* main: animate() follows the constructor inside one try block
StartsLoop(failure) == failure = "none"

\* window.onload: main() when THREE and CANNON are loaded; main builds the
\* manager, which subscribes loadProject, and runs the first frame
WindowOnLoad ==
    /\ phase = "loading"
    /\ \E libs \in BOOLEAN, end \in ConstructorEnds :
        IF ~libs
            THEN /\ phase' = "failed"
                 /\ lastOp' = PlayerOp("onload", "libraries missing")
                 /\ UNCHANGED <<RegistryVars, components, isGrounded, velocity,
                                ghostPosition, ghostVisible, frame, WorldVars>>
            ELSE LET sub == IF end = "renderer"
                                THEN Cur
                                ELSE SubscribeToProjectOp(Cur, backend)
                     failure == IF end # "ok" THEN end
                                ELSE IF sub.out = "threw" THEN "subscribe"
                                ELSE "none"
                 IN /\ Len(sub.scene) <= MaxScene
                    /\ Apply(sub)
                    /\ components' = ComponentsAfter(failure)
                    /\ IF StartsLoop(failure)
                          THEN \E contact \in BOOLEAN, vy \in PhysicsVy(velocity[2]),
                                  ray \in {NoHit} \cup FloorHits, motion \in StillWorld :
                                  AnimateFrame(ComponentsAfter(failure), 0, contact,
                                               vy, ray, motion, FALSE)
                          ELSE /\ phase' = "failed"
                               /\ lastOp' = PlayerOp("main", failure)
                               /\ UNCHANGED <<isGrounded, velocity, ghostPosition,
                                              ghostVisible, frame, WorldVars>>
    /\ UNCHANGED <<isLocked, assetIndex, decorationKeys, rotationY, revision,
                   movementEnabled, move, keysDown, yaw, backend, ClientVars>>

\* ------------------------------------------------------------------ Init
InitialStorage ==
    {Absent, Garbage,
     Stored(Arr(<<Item("a", "sofa", P1, R0), Item("b", "table", P2, R1)>>))}

NoOp == [op |-> "none", id |-> "", skipSave |-> FALSE, data |-> NotArr,
         out |-> "ok", saves |-> 0, before |-> 0, called |-> <<>>]

\* the manager right after its constructor: the registry is empty, the ghost
\* is a fresh visible mesh at the origin, loadProject is subscribed to a
\* data service that is still starting
InitState(keys, rev, ph, be) ==
    /\ placedMeshes = <<>>
    /\ placedBodies = <<>>
    /\ scene = <<>>
    /\ world = <<>>
    /\ placeableSurfaces = <<>>
    /\ isLocked = FALSE
    /\ assetIndex = 0
    /\ decorationKeys = keys
    /\ ghostVisible = TRUE
    /\ ghostPosition = Vec(0, 0, 0)
    /\ rotationY = 0
    /\ svcReady = FALSE
    /\ svcData = Arr(<<>>)
    /\ subscribers = (IF ph = "loading" THEN <<>> ELSE <<"loadProject">>)
    /\ localStorage \in InitialStorage
    /\ lastOp = NoOp
    /\ revision = rev
    /\ isGrounded = TRUE
    /\ velocity = <<Num(0), Num(0), Num(0)>>
    /\ movementEnabled = (IF rev = "drop" THEN "true" ELSE "undefined")
    /\ move = NoKeys
    /\ keysDown = {}
    /\ yaw = 0
    /\ frame = [steps |-> <<>>, ray |-> NoHit, substeps |-> 0, late |-> FALSE]
    /\ dynamicMeshes = NewBoxMeshes
    /\ dynamicBodies = NewBoxBodies
    /\ playerPosition = PlayerStart
    /\ cameraParentPosition = PlayerStart
    /\ accumulator = 0
    /\ components = (IF ph = "loading" THEN {} ELSE AllComponents)
    /\ phase = ph
    /\ backend = be
    /\ closures = {}
    /\ unsubscribed = {}

\* the manager main has built over the mock data service
InitFor(keys, rev) == InitState(keys, rev, "started", "mock")

InitWith(keys) == InitFor(keys, "builder")

Init == InitWith(DECORATION_ASSET_KEYS)

\* every operation of the program
Next ==
    \/ PlaceObject
    \/ RemoveObject
    \/ DeleteLastObject
    \/ SaveButton
    \/ LoadProject
    \/ ServiceInit
    \/ PointerLockChange
    \/ ChangeAsset
    \/ RotateObject
    \/ UpdateGhostPosition
    \/ HandleJump
    \/ KeyDown
    \/ KeyUp
    \/ MouseMove
    \/ FadeScreenToRed
    \/ RestartGame
    \/ KeyRestart
    \/ WindowOnLoad
    \/ Animate
    \/ CycleAsset
    \/ SwatchClick
    \/ KeyPress
    \/ KeyRelease
    \/ ClientSubscribe
    \/ ClientUnsubscribe

Spec == Init /\ [][Next]_vars

\* commits, removals and reloads in any order
NextOps ==
    \/ PlaceObject
    \/ RemoveObject
    \/ DeleteLastObject
    \/ LoadProject
    \/ ServiceInit
    \/ PointerLockChange

SpecOps == Init /\ [][NextOps]_vars

\* registry and persistence operations, the placement tool left as built
NextRegistry ==
    \/ RemoveObject
    \/ DeleteLastObject
    \/ SaveButton
    \/ LoadProject
    \/ ServiceInit

SpecRegistry == Init /\ [][NextRegistry]_vars

\* reloads over lists with every kind of bad entry
NextLoad ==
    \/ LoadProjectWide
    \/ ServiceInit

SpecLoad == Init /\ [][NextLoad]_vars

\* place actions under a moving, rotating ghost
NextPlace ==
    \/ PlaceObject
    \/ ServiceInit
    \/ PointerLockChange
    \/ RotateObject
    \/ UpdateGhostPosition

SpecPlace == Init /\ [][NextPlace]_vars

\* place actions over a palette that may name a key the catalog lacks
InitCatalog ==
    \E keys \in {DECORATION_ASSET_KEYS, DecorationKeysWithMissing} : InitWith(keys)

NextCatalog ==
    \/ PlaceObject
    \/ ServiceInit
    \/ PointerLockChange
    \/ ChangeAsset

SpecCatalog == InitCatalog /\ [][NextCatalog]_vars

\* the player in either copy of the scene modules, nothing stored yet
InitPlayer ==
    /\ \E rev \in Revisions : InitFor(DECORATION_ASSET_KEYS, rev)
    /\ localStorage = Absent

\* jump requests between frames
NextJump ==
    \/ HandleJump
    \/ PointerLockChange
    \/ FadeScreenToRed
    \/ RestartGame
    \/ Animate

SpecJump == InitPlayer /\ [][NextJump]_vars

\* movement keys and mouse turns between frames
NextMove ==
    \/ KeyDown
    \/ KeyUp
    \/ MouseMove
    \/ PointerLockChange
    \/ FadeScreenToRed
    \/ RestartGame
    \/ Animate

SpecMove == InitPlayer /\ [][NextMove]_vars

\* ghost updates over a registry that reloads fill
NextGhost ==
    \/ LoadProject
    \/ ServiceInit
    \/ UpdateGhostPosition

SpecGhost == Init /\ [][NextGhost]_vars

\* ghost updates under every asset of the palette
NextSnap ==
    \/ ChangeAsset
    \/ PointerLockChange
    \/ RotateObject
    \/ UpdateGhostPosition

SpecSnap == Init /\ [][NextSnap]_vars

\* frames over a world in motion, and restarts
NextSync ==
    \/ AnimateMoving
    \/ RestartGame
    \/ PointerLockChange

SpecSync == InitPlayer /\ [][NextSync]_vars

\* rotations, asset changes and commits in any order
NextYaw ==
    \/ RotateObject
    \/ ChangeAsset
    \/ PlaceObject
    \/ PointerLockChange

SpecYaw == Init /\ [][NextYaw]_vars

\* R presses between frames and fades
NextRestart ==
    \/ KeyRestart
    \/ FadeScreenToRed
    \/ AnimateMoving

SpecRestart == InitPlayer /\ [][NextRestart]_vars

\* the page before window.onload, for either copy and either data service
InitBoot ==
    \E rev \in Revisions, be \in Backends :
        InitState(DECORATION_ASSET_KEYS, rev, "loading", be)

\* the start-up and the frames that follow it
NextBoot ==
    \/ WindowOnLoad
    \/ ServiceInit
    \/ Animate

SpecBoot == InitBoot /\ [][NextBoot]_vars

\* the palette: cycling with Q / E and clicking swatches
NextAsset ==
    \/ CycleAsset
    \/ SwatchClick
    \/ RotateObject
    \/ PointerLockChange

SpecAsset == InitCatalog /\ [][NextAsset]_vars

\* the dynamic objects: created at start, dropped, replaced by a restart,
\* with commits in between
NextDynamic ==
    \/ AnimateDropping
    \/ RestartGame
    \/ PlaceObject
    \/ PointerLockChange

SpecDynamic == InitPlayer /\ [][NextDynamic]_vars

\* the keyboard, the pointer lock, movement disabled and enabled, frames
NextKeys ==
    \/ KeyPress
    \/ KeyRelease
    \/ PointerLockChange
    \/ FadeScreenToRed
    \/ RestartGame
    \/ Animate

SpecKeys == InitPlayer /\ [][NextKeys]_vars

\* the mock data service and its subscribers
NextService ==
    \/ ClientSubscribe
    \/ ClientUnsubscribe
    \/ SaveButton
    \/ ServiceInit

SpecService == Init /\ [][NextService]_vars

\* deleting the last object of registries loaded with any ids
NextDelete ==
    \/ LoadProjectOpaque
    \/ DeleteLastObject
    \/ ServiceInit

SpecDelete == Init /\ [][NextDelete]_vars

\* frames of any length
NextStep ==
    \/ AnimateLate
    \/ PointerLockChange

SpecStep == InitPlayer /\ [][NextStep]_vars

\* ------------------------------------------------------------- observers
\* what is registered under each id, the objects' identities left out
MeshVal(m) == [assetId |-> m.assetId, position |-> m.position, rotation |-> m.rotation]

BodyVal(b) == [mass |-> b.mass, position |-> b.position, rotation |-> b.rotation]

RegistryView(pm) == {[id |-> pm[i].k, mesh |-> MeshVal(pm[i].v)] : i \in 1..Len(pm)}

BodyView(pb) == {[id |-> pb[i].k, body |-> BodyVal(pb[i].v)] : i \in 1..Len(pb)}

\* the scene's meshes / the world's bodies as a multiset of values
BagOf(children, Val(_)) ==
    [v \in {Val(children[i]) : i \in 1..Len(children)} |->
        Cardinality({i \in 1..Len(children) : Val(children[i]) = v})]

BagMinus(bag, v) ==
    IF v \notin DOMAIN bag THEN bag
    ELSE IF bag[v] = 1 THEN [w \in DOMAIN bag \ {v} |-> bag[w]]
    ELSE [bag EXCEPT ![v] = @ - 1]

SceneBag == BagOf(scene, MeshVal)

WorldBag == BagOf(world, BodyVal)

Range(f) == {f[i] : i \in DOMAIN f}

\* --------------------------------------------------------------- claims

\* C1: in every state reached by commits, removals, deleteLastObject and
\* reloads, also after a commit that ended by throwing, placedMeshes and
\* placedBodies have the same key set.
C1_SameKeys == KeySet(placedMeshes) = KeySet(placedBodies)

C1_Witness ==
    /\ lastOp.op = "placeObject" /\ lastOp.out = "threw"
    /\ Len(placedMeshes) > 0

\* C2: a place action with the pointer locked, the ghost visible and the
\* selected asset in the catalog does not throw, registers exactly one new
\* id with a mesh and a mass-0 body at the ghost's position and rotation,
\* keeps the ids registered before, and issues a save.
C2_CommitRegisters ==
    [][(PlaceObject /\ isLocked /\ ghostVisible
            /\ AssetKeyAt(assetIndex) \in DOMAIN ASSETS)
        => /\ lastOp'.out = "placed"
           /\ lastOp'.saves >= 1
           /\ \E id \in KeySet(placedMeshes') \ KeySet(placedMeshes) :
                /\ KeySet(placedMeshes') = KeySet(placedMeshes) \cup {id}
                /\ KeySet(placedBodies') = KeySet(placedBodies) \cup {id}
                /\ ObjGet(placedMeshes', id).position = ghostPosition
                /\ ObjGet(placedMeshes', id).rotation = Vec(0, rotationY, 0)
                /\ ObjGet(placedBodies', id).mass = 0
                /\ ObjGet(placedBodies', id).position = ghostPosition
                /\ ObjGet(placedBodies', id).rotation = Vec(0, rotationY, 0)]_vars

\* C3: a commit while assetIndex selects a key the catalog lacks changes
\* neither the registry nor the scene nor the physics world, issues no save
\* and lets no exception out of placeObject.
C3_MissingAssetNoOp ==
    [][(PlaceObject /\ AssetKeyAt(assetIndex) \notin DOMAIN ASSETS)
        => /\ UNCHANGED <<placedMeshes, placedBodies, scene, world>>
           /\ lastOp'.saves = 0
           /\ lastOp'.out # "threw"]_vars

C3_Witness ==
    /\ lastOp.op = "placeObject" /\ lastOp.out = "noAsset"
    /\ isLocked
    /\ AssetKeyAt(assetIndex) \notin DOMAIN ASSETS

\* C4: a place action issued while the ghost is hidden or the pointer is not
\* locked leaves the registry, the scene and the physics world unchanged and
\* issues no save.
C4_CommitOnlyWhenVisibleAndLocked ==
    [][(PlaceObject /\ (~ghostVisible \/ ~isLocked))
        => /\ UNCHANGED <<placedMeshes, placedBodies, scene, world>>
           /\ lastOp'.saves = 0]_vars

\* C5: removeObject(id) for an id that is not registered does not throw and
\* leaves the registry's size and contents, the scene and the physics world
\* as they were.
C5_RemoveUnknownNoOp ==
    [][(RemoveObject /\ ~ObjHas(placedMeshes, lastOp'.id)
                     /\ ~ObjHas(placedBodies, lastOp'.id))
        => /\ lastOp'.out # "threw"
           /\ Len(placedMeshes') = Len(placedMeshes)
           /\ ObjKeys(placedMeshes') = ObjKeys(placedMeshes)
           /\ ObjKeys(placedBodies') = ObjKeys(placedBodies)
           /\ RegistryView(placedMeshes') = RegistryView(placedMeshes)
           /\ BodyView(placedBodies') = BodyView(placedBodies)
           /\ SceneBag' = SceneBag
           /\ WorldBag' = WorldBag]_vars

C5_Witness ==
    /\ lastOp.op = "removeObject" /\ lastOp.out = "unknown"
    /\ ~lastOp.skipSave /\ lastOp.saves = 1
    /\ svcReady /\ Len(subscribers) > 0
    /\ Len(placedMeshes) > 0

\* C6: removeObject(id) for a registered id deletes id from both maps, takes
\* its mesh out of the scene and its body out of the world, leaves the other
\* entries as they were, refreshes the placeable surfaces, and issues a save
\* exactly when skipSave is not set.
C6_RemoveRegistered ==
    [][(RemoveObject /\ ObjHas(placedMeshes, lastOp'.id)
                     /\ ObjHas(placedBodies, lastOp'.id))
        => LET id == lastOp'.id
               mesh == ObjGet(placedMeshes, id)
               body == ObjGet(placedBodies, id)
           IN /\ ~ObjHas(placedMeshes', id)
              /\ ~ObjHas(placedBodies', id)
              /\ RegistryView(placedMeshes')
                    = RegistryView(placedMeshes) \ {[id |-> id, mesh |-> MeshVal(mesh)]}
              /\ BodyView(placedBodies')
                    = BodyView(placedBodies) \ {[id |-> id, body |-> BodyVal(body)]}
              /\ SceneBag' = BagMinus(SceneBag, MeshVal(mesh))
              /\ WorldBag' = BagMinus(WorldBag, BodyVal(body))
              /\ placeableSurfaces' = ObjValues(placedMeshes')
              /\ lastOp'.saves = IF lastOp'.skipSave THEN 0 ELSE 1]_vars

C6_Witness ==
    /\ lastOp.op = "removeObject" /\ lastOp.out = "removed"
    /\ lastOp.before = 2 /\ Len(placedMeshes) = 1
    /\ ~lastOp.skipSave /\ svcReady /\ Len(subscribers) > 0

\* C7: loadProject([]) leaves no id in placedMeshes or placedBodies,
\* whatever was registered before.
C7_LoadEmptyClears ==
    (lastOp.op = "loadProject" /\ lastOp.data = Arr(<<>>))
        => (placedMeshes = <<>> /\ placedBodies = <<>>)

C7_Witness ==
    /\ lastOp.op = "loadProject" /\ lastOp.data = Arr(<<>>)
    /\ lastOp.before = 2

\* C8: right after loadProject(L), a second loadProject(L) leaves the same
\* registry: the same ids in the same order, and per id the same assetId,
\* position and rotation.
C8_ReloadIdempotent ==
    lastOp.op = "loadProject"
        => LET again == LoadProjectOp(Cur, lastOp.data)
           IN /\ ObjKeys(again.pm) = ObjKeys(placedMeshes)
              /\ RegistryView(again.pm) = RegistryView(placedMeshes)
              /\ BodyView(again.pb) = BodyView(placedBodies)

C8_Witness ==
    /\ lastOp.op = "loadProject" /\ lastOp.data.isArray
    /\ Len(lastOp.data.xs) = 2 /\ Len(placedMeshes) = 1
    /\ lastOp.before = 2

\* C9: after any sequence of commits and removals, loading the list that
\* saveProject serializes gives a registry with the same ids and, per id,
\* the same assetId, position and rotation.
C9_SaveLoadRoundTrip ==
    LET reloaded == LoadProjectOp(Cur, SaveData(placedMeshes))
    IN /\ KeySet(reloaded.pm) = KeySet(placedMeshes)
       /\ RegistryView(reloaded.pm) = RegistryView(placedMeshes)

\* a commit that ran after a removal saved the one entry it left
C9_Witness ==
    /\ lastOp.op = "placeObject" /\ lastOp.out = "threw"
    /\ Len(placedMeshes) = 1
    /\ svcReady /\ Len(subscribers) > 0
    /\ svcData = SaveData(placedMeshes)

\* C10: loadProject(list) never throws, and afterwards the registered ids
\* are exactly the ids of the entries whose position and rotation are arrays
\* of at least 3 numeric components and whose assetId is in the catalog.
NumericArray3(a) ==
    /\ a.isArray /\ Len(a.xs) >= 3
    /\ \A i \in 1..Len(a.xs) : a.xs[i].t = "num"

C10_LoadsExactlyTheValid ==
    (lastOp.op = "loadProject" /\ lastOp.data.isArray)
        => /\ lastOp.out # "threw"
           /\ KeySet(placedMeshes)
                = {KeyOf(item) : item \in
                      {it \in Range(lastOp.data.xs) :
                          /\ ~it.null
                          /\ NumericArray3(it.position)
                          /\ NumericArray3(it.rotation)
                          /\ AssetById(it.assetId) # {}}}

\* C11: a jump request made while isGrounded is false changes no component
\* of the player body's velocity and leaves isGrounded false.
C11_NoJumpInAir ==
    [][(HandleJump /\ ~isGrounded)
        => (velocity' = velocity /\ ~isGrounded')]_vars

C11_Witness ==
    /\ lastOp.op = "handleJump" /\ lastOp.out = "airborne"
    /\ ~isGrounded
    /\ velocity[2] = Num(0 - 5)

\* C12: a jump request made while isGrounded and movementEnabled are true
\* sets the vertical velocity to JUMP_VELOCITY, leaves the horizontal
\* velocity alone and clears isGrounded, so that a second request made
\* before a new grounding signal changes nothing.
C12_JumpSetsVelocityOnce ==
    [][(HandleJump /\ isGrounded /\ movementEnabled = "true")
        => /\ velocity' = <<velocity[1], Num(JUMP_VELOCITY), velocity[3]>>
           /\ ~isGrounded'
           /\ LET second == (IF revision = "builder"
                                 THEN HandleJumpOp ELSE HandleJumpDropOp)'
              IN /\ second.out # "granted"
                 /\ second.vy = velocity'[2]
                 /\ second.grounded = FALSE]_vars

C12_Witness ==
    /\ lastOp.op = "handleJump" /\ lastOp.out = "granted"
    /\ movementEnabled = "true"
    /\ velocity[2] = Num(JUMP_VELOCITY)
    /\ ~isGrounded

\* C13: a jump is granted only when isGrounded and movementEnabled both
\* hold; a request made while movementEnabled does not hold leaves the
\* velocity and isGrounded as they were, also when the player is grounded.
C13_JumpNeedsMovementEnabled ==
    [][(HandleJump /\ ~(isGrounded /\ movementEnabled = "true"))
        => (velocity' = velocity /\ isGrounded' = isGrounded)]_vars

\* C14: at the end of every frame that runs while movementEnabled is false
\* the player's x and z velocity are 0, whatever keys went down or up before
\* or during the disabled period.
C14_NoHorizontalVelocityWhileDisabled ==
    (lastOp.op = "animate" /\ movementEnabled = "false")
        => (velocity[1] = Num(0) /\ velocity[3] = Num(0))

\* C15: with yaw 0 and only moveForward set, the frame writes a horizontal
\* velocity along the forward axis (-z) of magnitude MOVEMENT_SPEED, for
\* every frame delta, zero included.
C15_ForwardSpeedIgnoresDelta ==
    [][(Animate /\ yaw = 0 /\ move = [NoKeys EXCEPT !["forward"] = TRUE])
        => (velocity'[1] = Num(0) /\ velocity'[3] = Num(0 - MOVEMENT_SPEED))]_vars

\* C16: for every combination of movement flags with a non-zero direction,
\* the horizontal speed the frame writes is MOVEMENT_SPEED (stated for the
\* frames whose write yields numbers: the squared speed is MOVEMENT_SPEED
\* squared).
C16_DiagonalSpeedNormalized ==
    [][(Animate /\ InputDirection(move, yaw) # <<0, 0>>
                /\ velocity'[1].t = "num" /\ velocity'[3].t = "num")
        => velocity'[1].v * velocity'[1].v + velocity'[3].v * velocity'[3].v
              = MOVEMENT_SPEED * MOVEMENT_SPEED]_vars

\* C17, as amended: when the camera ray hits the floor at (x, 0, z) and the
\* selected asset is in the catalog, updateGhostPosition shows the ghost at
\* (round(x/g)*g, h/2, round(z/g)*g): x and z are the multiples of the grid
\* step g nearest to the hit point, halves going up, and h is the selected
\* asset's height.  The grid step is 1, so the hit point (7, 0, -3) puts
\* the ghost at (7, h/2, -3).
C17_GhostSnapsToGrid ==
    [][(UpdateGhostPosition /\ frame'.ray.hit
            /\ AssetKeyAt(assetIndex) \in DOMAIN ASSETS)
        => LET ray == frame'.ray
               h == ASSETS[AssetKeyAt(assetIndex)].size[2]
               x == ghostPosition'[1].v
               y == ghostPosition'[2].v
               z == ghostPosition'[3].v
           IN /\ ghostVisible'
              /\ x % (20 * gridStep) = 0
              /\ z % (20 * gridStep) = 0
              /\ 0 - 10 * gridStep <= 2 * ray.x10 - x
              /\ 2 * ray.x10 - x < 10 * gridStep
              /\ 0 - 10 * gridStep <= 2 * ray.z10 - z
              /\ 2 * ray.z10 - z < 10 * gridStep
              /\ 2 * y = h
              /\ (ray.x10 = 70 /\ ray.z10 = 0 - 30)
                    => ghostPosition' = Vec(7 * 20, h \div 2, (0 - 3) * 20)]_vars

\* the table's ghost over the hit point (7.4, 0, -2.5)
C17_Witness ==
    /\ frame.ray.hit /\ frame.ray.x10 = 74 /\ frame.ray.z10 = 0 - 25
    /\ AssetKeyAt(assetIndex) = "TABLE"
    /\ ghostVisible
    /\ ghostPosition = Vec(7 * 20, 5, (0 - 2) * 20)

\* C17, as first stated: the hit point (7, 0, -3) puts the ghost at
\* (5, h/2, -5), the multiples of a grid step of 5.
C17_SnapAtStepFive ==
    [][(UpdateGhostPosition /\ frame'.ray.hit
            /\ frame'.ray.x10 = 70 /\ frame'.ray.z10 = 0 - 30
            /\ AssetKeyAt(assetIndex) \in DOMAIN ASSETS)
        => ghostPosition'
              = Vec(5 * 20, ASSETS[AssetKeyAt(assetIndex)].size[2] \div 2,
                    (0 - 5) * 20)]_vars

\* C18: after every updateGhostPosition call the ghost is visible exactly
\* when the camera ray meets a placeable surface, the floor or a registered
\* object; when it meets none the ghost is hidden and stays where it was.
C18_GhostVisibleIffSurfaceHit ==
    [][UpdateGhostPosition
        => LET ray == frame'.ray
           IN /\ ghostVisible' <=> (ray.hit \/ ray.placed)
              /\ ~(ray.hit \/ ray.placed) => ghostPosition' = ghostPosition]_vars

\* C19: an object whose commit ran and that nobody removed is still
\* registered after the load callback that follows, also when the backend
\* was not ready at the commit and the callback is the initial load.
C19_CommittedSurvivesReload ==
    [][(ServiceInit /\ lastOp.op = "placeObject"
                    /\ lastOp.out \in {"threw", "placed"})
        => \E i \in 1..Len(placedMeshes') :
              /\ placedMeshes'[i].v.position = ghostPosition
              /\ placedMeshes'[i].v.assetId = ASSETS[AssetKeyAt(assetIndex)].id]_vars

\* C20: every frame runs input sampling, physics advancement, grounding
\* update, movement velocity write, body-to-mesh sync, ghost position update
\* and render, in this order, none left out.
C20_FrameStepOrder ==
    lastOp.op = "animate"
        => frame.steps = <<"input", "physics", "grounding", "movement",
                           "sync", "ghost", "render">>

\* C21: at the end of every frame there is one tracked mesh per tracked
\* body, every mesh has the position and the orientation of its body, and
\* the camera parent has the player body's position.
C21_MeshesFollowBodies ==
    (lastOp.op = "animate" /\ lastOp.out = "ok")
        => /\ Len(dynamicMeshes) = Len(dynamicBodies)
           /\ \A i \in 1..Len(dynamicMeshes) :
                /\ dynamicMeshes[i].position = dynamicBodies[i].position
                /\ dynamicMeshes[i].quaternion = dynamicBodies[i].quaternion
           /\ cameraParentPosition = playerPosition

\* a frame after which a pushed, turned box, a dropped piece and a displaced
\* player are on screen where physics put them
C21_Witness ==
    /\ lastOp.op = "animate" /\ lastOp.out = "ok"
    /\ Len(dynamicBodies) = BoxCount + 1
    /\ dynamicBodies[1].position[1] = 20
    /\ dynamicMeshes[1].quaternion = QTurned
    /\ playerPosition[1] = 20

\* C22: the world.step call of a frame runs at most 3 sub-steps of 1/60 s
\* each, whatever the frame time; when the frame time exceeds 3/60 s it runs
\* exactly 3, so the simulated time of the call is less than the frame time.
C22_AtMostThreeSubSteps ==
    (lastOp.op = "animate" /\ lastOp.out = "ok")
        => /\ frame.substeps <= 3
           /\ 60 * fixedTimeStep = 960
           /\ frame.late => frame.substeps = 3

\* a frame that took 100/960 s: three sub-steps, 52/960 s left unsimulated
C22_Witness ==
    /\ lastOp.op = "animate" /\ lastOp.out = "ok"
    /\ frame.late
    /\ frame.substeps = 3
    /\ accumulator = 52

\* C23: no frame does any work unless renderer, camera and world are all
\* set: when the libraries are not loaded or the constructor left one
\* unset, no frame is scheduled and the start-up is reported as failed.
C23_NoFrameWithoutComponents ==
    /\ (lastOp.op = "animate" \/ frame.steps # <<>>)
          => components = AllComponents
    /\ (phase # "loading" /\ components # AllComponents) => phase = "failed"
    /\ lastOp.op \in {"onload", "main"}
          => (phase = "failed" /\ frame.steps = <<>>)

\* the renderer could not be built: the start-up failed and no frame ran
C23_Witness ==
    /\ lastOp.op = "main" /\ lastOp.out = "renderer"
    /\ components = {}
    /\ phase = "failed"
    /\ frame.steps = <<>>

\* C24: for either data service the subscribeToProject call the constructor
\* makes returns without raising, before and after the service is ready
\* (the part of the claim a finite run decides; the callback can only be
\* invoked once the call has returned).
C24_SubscribeNeverThrows ==
    lastOp.op = "main" => lastOp.out # "subscribe"

\* C25: an R key press while movementEnabled is true leaves the player's
\* position and velocity, the dynamic objects and movementEnabled as they
\* were; restartGame runs only on a press made while it is false.
C25_RestartOnlyWhileDisabled ==
    [][(KeyRestart /\ movementEnabled = "true")
        => UNCHANGED <<playerPosition, cameraParentPosition, velocity,
                       dynamicMeshes, dynamicBodies, movementEnabled>>]_vars

\* C26: loadProject calls manager.saveProject not once, whether the data
\* service calls it at start-up or as the echo of a save; so a removal ends
\* after the one save it asked for (none when the save is suppressed), a
\* commit after at most one, and deleteLastObject after its two.
C26_LoadIssuesNoSave ==
    /\ lastOp.op \in {"loadProject", "init"} => lastOp.saves = 0
    /\ lastOp.op = "removeObject"
          => lastOp.saves = (IF lastOp.skipSave THEN 0 ELSE 1)
    /\ lastOp.op = "placeObject" => lastOp.saves <= 1
    /\ lastOp.op = "deleteLastObject" => lastOp.saves \in {0, 2}

\* a removal over the ready service: one save, whose echo reloaded the
\* object that was left
C26_Witness ==
    /\ lastOp.op = "removeObject" /\ lastOp.out = "removed"
    /\ ~lastOp.skipSave
    /\ lastOp.saves = 1
    /\ svcReady
    /\ lastOp.before = 2
    /\ Len(placedMeshes) = 1
    /\ svcData = SaveData(placedMeshes)

\* C27: after a frame whose physics step reported no contact of the player
\* body isGrounded is false, at start-up and after walking off a support
\* as well, so that a jump request made then is not granted.
C27_AirborneAfterStepWithoutContact ==
    (lastOp.op = "animate" /\ lastOp.out = "ok"
        /\ "grounding" \notin Range(frame.steps))
        => ~isGrounded

\* C28: when the camera ray meets a registered object first (its top face,
\* at a height y0 > 0) the ghost is shown at the height y0 + h/2, above h/2,
\* h being the selected asset's height; when it meets the floor first the
\* ghost's height is h/2.
C28_GhostRestsOnHitSurface ==
    [][(UpdateGhostPosition /\ AssetKeyAt(assetIndex) \in DOMAIN ASSETS)
        => LET ray == frame'.ray
               h == ASSETS[AssetKeyAt(assetIndex)].size[2]
           IN /\ ray.placed => (ghostVisible' /\ 2 * ghostPosition'[2].v > h)
              /\ (ray.hit /\ ~ray.placed)
                    => (ghostVisible' /\ 2 * ghostPosition'[2].v = h)]_vars

\* C29: after every commit, removal and reload the placeable surfaces are
\* the floor mesh and the meshes of the registry, no more and no less.
C29_SurfacesAreFloorAndRegistry ==
    lastOp.op \in {"placeObject", "removeObject", "deleteLastObject",
                   "loadProject", "init"}
        => Range(placeableSurfaces)
              = {FloorMesh} \cup Range(ObjValues(placedMeshes))

C31_AssetIndexCyclesModulo ==
    [][/\ \A n \in 1..MaxPalette, i \in 0..(MaxPalette - 1),
             d \in (0 - MaxDirection)..MaxDirection :
             i < n => CycleIndex(i, d, n) = (i + d) % n
       /\ (CycleAsset \/ SwatchClick) =>
             /\ assetIndex' \in 0..(Len(decorationKeys) - 1)
             /\ assetIndex' =
                    (assetIndex + lastOp'.direction) % Len(decorationKeys)
       /\ SwatchClick =>
             \E index \in 0..(Len(decorationKeys) - 1) :
                 /\ lastOp'.direction = index - assetIndex
                 /\ assetIndex' = index
       /\ (CycleAsset /\ lastOp.op = "changeAsset" /\ lastOp.direction = 1
             /\ lastOp'.direction = 0 - 1) => assetIndex' = lastOp.from
      ]_vars

\* E on the last key wrapped to the first
C31_Witness ==
    /\ lastOp.op = "changeAsset" /\ lastOp.direction = 1
    /\ lastOp.from = Len(decorationKeys) - 1
    /\ assetIndex = 0

\* C32: removeObject(id) for an id that is not in the registry issues no
\* save; a removal saves only when it found and deleted an entry and saving
\* was not suppressed.
C32_RemoveUnknownIssuesNoSave ==
    [][(RemoveObject /\ ~ObjHas(placedMeshes, lastOp'.id)
                     /\ ~ObjHas(placedBodies, lastOp'.id))
        => lastOp'.saves = 0]_vars

\* C33: every placed-object mesh in the scene and every placed-object body
\* in the physics world is referenced by a registry entry, after any reload
\* (also of a list that repeats an id or has entries without one) and any
\* commits and removes.
C33_NoMeshOrBodyOutsideRegistry ==
    /\ \A i \in 1..Len(scene) :
          \E j \in 1..Len(placedMeshes) : placedMeshes[j].v.h = scene[i].h
    /\ \A i \in 1..Len(world) :
          \E j \in 1..Len(placedBodies) : placedBodies[j].v.h = world[i].h

\* C34: dynamicMeshes and dynamicBodies have the same length and entry i of
\* each belongs to the same object, after scene initialization and any
\* commits, pentomino drops and restarts.
C34_DynamicArraysAligned ==
    /\ Len(dynamicMeshes) = Len(dynamicBodies)
    /\ \A i \in 1..Len(dynamicMeshes) :
          /\ i \in DOMAIN dynamicBodies
          /\ dynamicMeshes[i].obj = dynamicBodies[i].obj

\* a commit was attempted after a restart and a drop
C34_Witness ==
    /\ lastOp.op = "placeObject" /\ lastOp.out = "threw"
    /\ playerPosition = RestartPosition
    /\ Len(dynamicMeshes) = BoxCount + 1
    /\ dynamicMeshes[BoxCount + 1].obj[1] = "piece"
    /\ dynamicBodies[BoxCount + 1].obj[1] = "piece"

\* C35: every restartGame call completes without throwing and ends with
\* movementEnabled true, the player's velocity zero, and the player body and
\* the camera parent at the same start position; a restart never leaves
\* movement disabled.
C35_RestartCompletesEnabled ==
    lastOp.op = "restartGame"
        => /\ lastOp.out = "ok"
           /\ movementEnabled = "true"
           /\ velocity = <<Num(0), Num(0), Num(0)>>
           /\ playerPosition = RestartPosition
           /\ cameraParentPosition = playerPosition

\* C36: a movement flag is true only while one of its keys is held: after
\* a frame, every flag that is set has a key of its direction down, also
\* when the key was released while the pointer was unlocked or movement
\* was disabled.
C36_FlagOnlyWhileKeyHeld ==
    lastOp.op = "animate"
        => \A direction \in MoveKeys :
              move[direction] => direction \in HeldDirections(keysDown)

\* C37: the function subscribeToProject(cb) returns removes exactly cb from
\* the subscriber list and no other subscriber, whatever the order of the
\* subscribe and unsubscribe calls and whether cb subscribed before or
\* after the service became ready; once it was called cb is not invoked
\* again, and until then cb is invoked on every save.
C37_UnsubscribeRemovesExactlyItsCallback ==
    [][/\ \A closure \in closures :
             (ClientUnsubscribe /\ closures' = closures \ {closure})
                 => subscribers' =
                        SelectSeq(subscribers, LAMBDA c : c # closure.cb)
       /\ \A cb \in unsubscribed' : cb \notin Range(lastOp'.called)
       /\ (SaveButton /\ svcReady)
             => \A closure \in closures : closure.cb \in Range(lastOp'.called)
      ]_vars

\* C38: loadProject called with a value that is not an array does not
\* throw, registers no object, issues no save, and removes every object
\* registered before the call from the registry, the scene and the world.
C38_LoadOfNonArrayClears ==
    [][(LoadProject /\ ~lastOp'.data.isArray)
        => /\ lastOp'.out # "threw"
           /\ lastOp'.saves = 0
           /\ placedMeshes' = <<>> /\ placedBodies' = <<>>
           /\ placeableSurfaces' = <<>>
           /\ \A i \in 1..Len(placedMeshes), j \in 1..Len(scene') :
                 scene'[j].h # placedMeshes[i].v.h
           /\ \A i \in 1..Len(placedBodies), j \in 1..Len(world') :
                 world'[j].h # placedBodies[i].v.h
           /\ Len(scene') = Len(scene) - Len(placedMeshes)
           /\ Len(world') = Len(world) - Len(placedBodies)]_vars

\* a value that is no array arrived while two objects were registered
C38_Witness ==
    /\ lastOp.op = "loadProject" /\ ~lastOp.data.isArray
    /\ lastOp.before = 2 /\ placedMeshes = <<>>

\* C39: deleteLastObject on a non-empty registry removes exactly one object,
\* the one registered most recently, from both registry maps, the scene and
\* the physics world, and the list saved last is the serialization of the
\* remaining registry; on an empty registry it changes nothing and issues
\* no save.
C39_DeleteLastRemovesMostRecent ==
    [][/\ (DeleteLastObject /\ placedMeshes = <<>>)
             => /\ UNCHANGED RegistryVars
                /\ lastOp'.saves = 0
       /\ (DeleteLastObject /\ placedMeshes # <<>>)
             => \E id \in KeySet(placedMeshes) :
                   LET mesh == ObjGet(placedMeshes, id)
                       body == ObjGet(placedBodies, id)
                   IN /\ Len(placedMeshes') = Len(placedMeshes) - 1
                      /\ Len(placedBodies') = Len(placedBodies) - 1
                      /\ RegistryView(placedMeshes') = RegistryView(placedMeshes)
                            \ {[id |-> id, mesh |-> MeshVal(mesh)]}
                      /\ BodyView(placedBodies') = BodyView(placedBodies)
                            \ {[id |-> id, body |-> BodyVal(body)]}
                      /\ SceneBag' = BagMinus(SceneBag, MeshVal(mesh))
                      /\ WorldBag' = BagMinus(WorldBag, BodyVal(body))
                      /\ svcReady => /\ svcData' = SaveData(placedMeshes')
                                     /\ localStorage' = Stored(svcData')
       /\ (DeleteLastObject /\ placedMeshes # <<>>
             /\ lastOp.op = "loadProject" /\ lastOp.data.isArray
             /\ Len(lastOp.data.xs) = Len(placedMeshes))
             => LET items == lastOp.data.xs
                IN ~ObjHas(placedMeshes', KeyOf(items[Len(items)]))
      ]_vars
====
